---- MODULE Spec2Model ----
(***************************************************************************)
(* State-machine model of the QuestionInput React component                *)
(* (frontend/src/components/QuestionInput/QuestionInput.tsx).              *)
(*                                                                         *)
(* Every event handler of the component is one action.  JavaScript runs a  *)
(* handler to completion, so a handler is atomic; an async handler is      *)
(* split at its await into the part that runs at the event and the part    *)
(* that runs when the promise settles.  The props are fixed when the       *)
(* component is mounted.                                                   *)
(*                                                                         *)
(* The repository holds a second revision of the file in which the image   *)
(* input is commented out and sendQuestion always sends the text alone.    *)
(* There base64Image is never set, and the handlers of the two revisions   *)
(* agree whenever base64Image is null: its behaviours are the behaviours   *)
(* of this model in which handleImageUpload never runs.                    *)
(*                                                                         *)
(* JavaScript values are represented as follows:                           *)
(*   - a string that the component inspects or concatenates is a sequence  *)
(*     of one-character strings;                                           *)
(*   - an opaque string (error message, data URL, conversation id) is a    *)
(*     TLA+ string;                                                        *)
(*   - a value that may be null or undefined is a sequence of length at    *)
(*     most 1: Null is the empty sequence, Some(v) is <<v>>.               *)
(*                                                                         *)
(* lastOp and sinceClear are history variables: they record what the last  *)
(* handler did and are read by no handler.                                 *)
(***************************************************************************)
EXTENDS Integers, Sequences, FiniteSets, TLC

\* ------------------------------------------------------------------ bounds
MaxPending == 2        \* most processDocumentWithAI calls in flight at once
MaxPendingImages == 1  \* most resizeImage calls in flight at once

\* ------------------------------------------------------------ JS values
Null == <<>>
Some(v) == <<v>>
Get(o) == o[1]

\* the draft texts the user enters: empty, blank, plain, and with leading or
\* trailing whitespace
Strings == {<<>>, <<" ">>, <<"a">>, <<" ", "a">>, <<"a", " ">>}

IsWhitespace(c) == c = " "

RECURSIVE trimStart(_)
trimStart(s) ==
  IF s = <<>> THEN <<>>
  ELSE IF IsWhitespace(Head(s)) THEN trimStart(Tail(s)) ELSE s

RECURSIVE trimEnd(_)
trimEnd(s) ==
  IF s = <<>> THEN <<>>
  ELSE IF IsWhitespace(s[Len(s)]) THEN trimEnd(SubSeq(s, 1, Len(s) - 1)) ELSE s

\* String.prototype.trim
trim(s) == trimEnd(trimStart(s))

\* truthiness of an optional opaque string: null, undefined and '' are falsy
Truthy(o) == o # Null /\ Get(o) # ""

\* ------------------------------------------------------- the environment
\* file handles the user can pick in the document input
Files == {"F1", "F2"}

FileName(f) == IF f = "F1" THEN <<"a">> ELSE <<"b">>
FileText(f) == IF f = "F1" THEN <<"x">> ELSE <<"y", " ">>
FileSummary(f) == IF f = "F1" THEN <<"s">> ELSE <<"t">>

\* the value processDocumentWithAI resolves with for a file
processDocumentWithAI(f) ==
  [filename |-> FileName(f),
   enhanced_content |-> [summary |-> FileSummary(f), original_text |-> FileText(f)]]

\* values a rejected processDocumentWithAI promise can carry: an Error with a
\* message, an Error constructed without one (message ''), a non-Error value
Failures ==
  { [isError |-> TRUE,  message |-> "boom"],
    [isError |-> TRUE,  message |-> ""],
    [isError |-> FALSE, message |-> ""] }

\* encoded images resizeImage can resolve with
Images == {"data:1"}

\* keyboard events
Key(k, shift, composing) == [key |-> k, shiftKey |-> shift, isComposing |-> composing]
KeyEvents ==
  { Key("Enter", FALSE, FALSE),   \* Enter
    Key("Enter", TRUE, FALSE),    \* Shift+Enter
    Key("Enter", FALSE, TRUE),    \* Enter that commits an IME composition
    Key(" ", FALSE, FALSE),       \* Space
    Key("a", FALSE, FALSE) }      \* any other key
NoEvent == [key |-> "", shiftKey |-> FALSE, isComposing |-> FALSE]

\* conversationId prop: undefined, '' or an identifier
ConversationIds == {Null, Some(""), Some("c1")}

VARIABLES
  disabled,        \* prop
  clearOnSend,     \* prop (undefined is FALSE)
  conversationId,  \* prop
  question,        \* useState<string>('')
  base64Image,     \* useState<string | null>(null)
  isUploading,     \* useState<boolean>(false)
  uploadError,     \* useState<string | null>(null)
  uploadedFile,    \* useState<any>(null)
  pending,         \* processDocumentWithAI calls in flight, in request order
  pendingImages,   \* number of resizeImage calls in flight
  lastOp,          \* history: the handler that ran last and what it did
  sinceClear       \* history: what happened since the last clearing send

props == <<disabled, clearOnSend, conversationId>>
state == <<question, base64Image, isUploading, uploadError, uploadedFile>>
vars == <<disabled, clearOnSend, conversationId, question, base64Image,
          isUploading, uploadError, uploadedFile, pending, pendingImages,
          lastOp, sinceClear>>

\* lastOp: the handler that ran (name), the keyboard event it got (ev), the
\* onSend calls it made (calls), the file it was about (file), the number of
\* earlier-requested calls still in flight (ahead), and the value a rejected
\* promise carried (reason)
NoReason == [isError |-> FALSE, message |-> ""]
Op(name, ev, calls, file, ahead) ==
  [name |-> name, ev |-> ev, calls |-> calls, file |-> file, ahead |-> ahead,
   reason |-> Null]

\* the component right after it is mounted with props from the given sets
Mounted(D, C, I) ==
  /\ disabled \in D
  /\ clearOnSend \in C
  /\ conversationId \in I
  /\ question = <<>>
  /\ base64Image = Null
  /\ isUploading = FALSE
  /\ uploadError = Null
  /\ uploadedFile = Null
  /\ pending = <<>>
  /\ pendingImages = 0
  /\ lastOp = Op("mount", NoEvent, <<>>, Null, 0)
  /\ sinceClear = "none"

Init == Mounted(BOOLEAN, BOOLEAN, ConversationIds)

\* mounted enabled, for a new conversation
InitEnabled == Mounted({FALSE}, BOOLEAN, {Null})

\* mounted enabled or disabled, for a new conversation
InitGuard == Mounted(BOOLEAN, BOOLEAN, {Null})

\* mounted enabled, with every kind of conversationId
InitDispatch == Mounted({FALSE}, BOOLEAN, ConversationIds)

\* ---------------------------------------------------------- sendQuestion
\* mutant: the guard tests the raw draft instead of the trimmed one
sendQuestionDisabled_raw(dis, q, f) == dis \/ (q = <<>> /\ f = Null)

sendQuestionDisabled(dis, q, f) == dis \/ (trim(q) = <<>> /\ f = Null)

FileLabel == <<"F", "i", "l", "e", ":", " ">>
NewLines == <<"\n", "\n">>
UserQuestionLabel == <<"U", "s", "e", "r", " ", "Q", "u", "e", "s", "t", "i", "o", "n", ":", " ">>

\* mutant: the draft is trimmed before it is sent
questionContent_trimmed(q, f) ==
  IF f # Null
    THEN FileLabel \o Get(f).filename \o NewLines \o Get(f).full_content
           \o NewLines \o UserQuestionLabel \o trim(q)
    ELSE trim(q)

questionContent(q, f) ==
  IF f # Null
    THEN FileLabel \o Get(f).filename \o NewLines \o Get(f).full_content
           \o NewLines \o UserQuestionLabel \o q
    ELSE q

StringPayload(t) == [kind |-> "string", string |-> t, array |-> <<>>]
ArrayPayload(parts) == [kind |-> "array", string |-> <<>>, array |-> parts]
TextPart(t) == [type |-> "text", text |-> t, url |-> ""]
ImagePart(u) == [type |-> "image_url", text |-> <<>>, url |-> u]

\* mutant: the image part comes first
questionTest_swapped(content, img) ==
  IF Truthy(img)
    THEN ArrayPayload(<<ImagePart(Get(img)), TextPart(content)>>)
    ELSE StringPayload(content)

questionTest(content, img) ==
  IF Truthy(img)
    THEN ArrayPayload(<<TextPart(content), ImagePart(Get(img))>>)
    ELSE StringPayload(content)

OnSendCall(n, payload, id) == [arity |-> n, payload |-> payload, id |-> id]

\* mutant: the conversation id is never passed on
dispatch_noId(payload, cid) == <<OnSendCall(1, payload, Null)>>

\* the onSend calls one run of sendQuestion makes after its guard
dispatch(payload, cid) ==
  IF Truthy(cid)
    THEN <<OnSendCall(2, payload, cid)>>
    ELSE <<OnSendCall(1, payload, Null)>>

\* mutant: the attached document survives the clearOnSend block
afterSend_keepFile(clear, q, f, img) ==
  IF clear
    THEN [question |-> <<>>, uploadedFile |-> f, base64Image |-> Null]
    ELSE [question |-> q, uploadedFile |-> f, base64Image |-> img]

\* the component state after the clearOnSend block
afterSend(clear, q, f, img) ==
  IF clear
    THEN [question |-> <<>>, uploadedFile |-> Null, base64Image |-> Null]
    ELSE [question |-> q, uploadedFile |-> f, base64Image |-> img]

\* sendQuestion, run by the handler `name` on the event `ev`
sendQuestion(name, ev) ==
  IF sendQuestionDisabled(disabled, question, uploadedFile)
    THEN /\ lastOp' = Op(name, ev, <<>>, Null, 0)
         /\ UNCHANGED <<props, state, pending, pendingImages, sinceClear>>
    ELSE LET content == questionContent(question, uploadedFile)
             payload == questionTest(content, base64Image)
             after   == afterSend(clearOnSend, question, uploadedFile, base64Image)
         IN /\ lastOp' = Op(name, ev, dispatch(payload, conversationId), Null, 0)
            /\ question' = after.question
            /\ uploadedFile' = after.uploadedFile
            /\ base64Image' = after.base64Image
            /\ sinceClear' = IF clearOnSend THEN "clean" ELSE sinceClear
            /\ UNCHANGED <<props, isUploading, uploadError, pending, pendingImages>>

\* the handler ran but did not call sendQuestion
Ignored(name, ev) ==
  /\ lastOp' = Op(name, ev, <<>>, Null, 0)
  /\ UNCHANGED <<props, state, pending, pendingImages, sinceClear>>

\* onClick of the send button
onClick == sendQuestion("onClick", NoEvent)

sendKey(e) == e.key = "Enter" \/ e.key = " "

\* onKeyDown of the send button
onKeyDown ==
  \E e \in KeyEvents :
    IF sendKey(e) THEN sendQuestion("onKeyDown", e) ELSE Ignored("onKeyDown", e)

\* mutant: Shift is not looked at
enterPressed_anyShift(e) == e.key = "Enter" /\ ~(e.isComposing = TRUE)

enterPressed(e) == e.key = "Enter" /\ ~e.shiftKey /\ ~(e.isComposing = TRUE)

\* onKeyDown of the text field
onEnterPress ==
  \E e \in KeyEvents :
    IF enterPressed(e) THEN sendQuestion("onEnterPress", e) ELSE Ignored("onEnterPress", e)

\* onChange of the text field; newValue may be undefined
onQuestionChange ==
  \E newValue \in {Null} \cup {Some(s) : s \in Strings} :
    /\ question' = IF newValue = Null THEN <<>> ELSE Get(newValue)
    /\ lastOp' = Op("onQuestionChange", NoEvent, <<>>, Null, 0)
    /\ sinceClear' = "none"
    /\ UNCHANGED <<props, base64Image, isUploading, uploadError, uploadedFile,
                   pending, pendingImages>>

\* ------------------------------------------------------ handleFileUpload
\* the object handed to setUploadedFile
uploadedDocument(processedDocument) ==
  [filename |-> processedDocument.filename,
   enhanced_content |-> processedDocument.enhanced_content,
   display_summary |-> processedDocument.enhanced_content.summary,
   full_content |-> processedDocument.enhanced_content.original_text]

\* mutant: the message is read off whatever was thrown
uploadErrorMessage_always(error) == error.message

\* the string handed to setUploadError in the catch block
uploadErrorMessage(error) ==
  IF error.isError THEN error.message ELSE "Document processing failed"

\* how a processDocumentWithAI promise can settle
Fulfilled(doc) == [kind |-> "fulfilled", value |-> Some(doc), reason |-> NoReason]
Rejected(error) == [kind |-> "rejected", value |-> Null, reason |-> error]
Outcomes(f) ==
  {Fulfilled(processDocumentWithAI(f))} \cup {Rejected(e) : e \in Failures}

\* mutant: isUploading is reset on success only (no finally)
settle_noFinally(outcome, prevFile, prevError) ==
  IF outcome.kind = "fulfilled"
    THEN [uploadedFile |-> Some(uploadedDocument(Get(outcome.value))),
          uploadError |-> prevError,
          isUploading |-> FALSE]
    ELSE [uploadedFile |-> prevFile,
          uploadError |-> Some(uploadErrorMessage(outcome.reason)),
          isUploading |-> TRUE]

\* mutant: a successful upload also clears the error
settle_clearsError(outcome, prevFile, prevError) ==
  IF outcome.kind = "fulfilled"
    THEN [uploadedFile |-> Some(uploadedDocument(Get(outcome.value))),
          uploadError |-> Null,
          isUploading |-> FALSE]
    ELSE [uploadedFile |-> prevFile,
          uploadError |-> Some(uploadErrorMessage(outcome.reason)),
          isUploading |-> FALSE]

\* mutant: a new result is merged into the document already attached
settle_merges(outcome, prevFile, prevError) ==
  IF outcome.kind = "fulfilled"
    THEN [uploadedFile |->
            IF prevFile = Null
              THEN Some(uploadedDocument(Get(outcome.value)))
              ELSE Some([uploadedDocument(Get(outcome.value)) EXCEPT
                           !.full_content = Get(prevFile).full_content \o @]),
          uploadError |-> prevError,
          isUploading |-> FALSE]
    ELSE [uploadedFile |-> prevFile,
          uploadError |-> Some(uploadErrorMessage(outcome.reason)),
          isUploading |-> FALSE]

\* the try / catch / finally that runs when the promise settles
settle(outcome, prevFile, prevError) ==
  IF outcome.kind = "fulfilled"
    THEN [uploadedFile |-> Some(uploadedDocument(Get(outcome.value))),
          uploadError |-> prevError,
          isUploading |-> FALSE]
    ELSE [uploadedFile |-> prevFile,
          uploadError |-> Some(uploadErrorMessage(outcome.reason)),
          isUploading |-> FALSE]

\* the part of handleFileUpload that runs at the change event of the input
handleFileUpload ==
  \E file \in {Null} \cup {Some(f) : f \in Files} :
    IF file = Null
      THEN /\ lastOp' = Op("handleFileUpload", NoEvent, <<>>, Null, 0)
           /\ UNCHANGED <<props, state, pending, pendingImages, sinceClear>>
      ELSE /\ Len(pending) < MaxPending
           /\ isUploading' = TRUE
           /\ uploadError' = Null
           /\ pending' = Append(pending, Get(file))
           /\ lastOp' = Op("handleFileUpload", NoEvent, <<>>, file, Len(pending))
           /\ sinceClear' = "none"
           /\ UNCHANGED <<props, question, base64Image, uploadedFile, pendingImages>>

\* the calls still in flight after call i settled
Remaining(i) ==
  [j \in 1..(Len(pending) - 1) |-> IF j < i THEN pending[j] ELSE pending[j + 1]]

\* the part of handleFileUpload that runs when call i settles
fileUploadSettled ==
  \E i \in 1..Len(pending) :
    \E outcome \in Outcomes(pending[i]) :
      LET after == settle(outcome, uploadedFile, uploadError)
          name == IF outcome.kind = "fulfilled" THEN "docFulfilled" ELSE "docRejected"
      IN /\ uploadedFile' = after.uploadedFile
         /\ uploadError' = after.uploadError
         /\ isUploading' = after.isUploading
         /\ pending' = Remaining(i)
         /\ lastOp' = [Op(name, NoEvent, <<>>, Some(pending[i]), i - 1) EXCEPT
                         !.reason = IF outcome.kind = "rejected"
                                      THEN Some(outcome.reason) ELSE Null]
         /\ sinceClear' = IF outcome.kind = "fulfilled" /\ sinceClear = "clean"
                            THEN "reattached" ELSE sinceClear
         /\ UNCHANGED <<props, question, base64Image, pendingImages>>

\* ----------------------------------------------------- handleImageUpload
handleImageUpload ==
  /\ \E file \in {Null, Some("image")} :
       IF file = Null
         THEN /\ lastOp' = Op("handleImageUpload", NoEvent, <<>>, Null, 0)
              /\ UNCHANGED <<props, state, pending, pendingImages, sinceClear>>
         ELSE /\ pendingImages < MaxPendingImages
              /\ pendingImages' = pendingImages + 1
              /\ lastOp' = Op("handleImageUpload", NoEvent, <<>>, file, 0)
              /\ UNCHANGED <<props, state, pending, sinceClear>>

\* convertToBase64 after resizeImage settled
convertToBase64 ==
  /\ pendingImages > 0
  /\ pendingImages' = pendingImages - 1
  /\ \/ \E resizedBase64 \in Images :
          /\ base64Image' = Some(resizedBase64)
          /\ lastOp' = Op("imageResized", NoEvent, <<>>, Null, 0)
     \/ /\ base64Image' = base64Image
        /\ lastOp' = Op("imageFailed", NoEvent, <<>>, Null, 0)
  /\ UNCHANGED <<props, question, isUploading, uploadError, uploadedFile,
                 pending, sinceClear>>

Next ==
  \/ onClick
  \/ onKeyDown
  \/ onEnterPress
  \/ onQuestionChange
  \/ handleFileUpload
  \/ fileUploadSettled
  \/ handleImageUpload
  \/ convertToBase64

Spec == Init /\ [][Next]_vars
SpecEnabled == InitEnabled /\ [][Next]_vars
SpecGuard == InitGuard /\ [][Next]_vars
SpecDispatch == InitDispatch /\ [][Next]_vars

\* ======================================================================
\* Properties
\* ======================================================================

\* the draft consists of whitespace only (it trims to the empty string)
Blank(q) == \A i \in 1..Len(q) : q[i] = " "

\* the state in which a send is to be refused
Refusing == disabled \/ (Blank(question) /\ uploadedFile = Null)

SendTriggers == {"onClick", "onKeyDown", "onEnterPress"}

\* this step ran a handler of the send button or of the text field
TriggerStep == lastOp'.name \in SendTriggers

\* this step is a click, a Space or an Enter on the send button, or a plain
\* Enter in the text field
Triggered ==
  \/ lastOp'.name = "onClick"
  \/ lastOp'.name = "onKeyDown" /\ lastOp'.ev.key \in {"Enter", " "}
  \/ lastOp'.name = "onEnterPress" /\ lastOp'.ev = Key("Enter", FALSE, FALSE)

PermittedSend == Triggered /\ ~Refusing

\* nothing was sent and the component is as it was
NotSent ==
  /\ lastOp'.calls = <<>>
  /\ UNCHANGED <<question, base64Image, isUploading, uploadError, uploadedFile,
                 pending, pendingImages>>

\* the text carried by a payload
PayloadText(p) == IF p.kind = "string" THEN p.string ELSE p.array[1].text

\* ----------------------------------------------------------------- C1
\* C1: a run of a send handler while `disabled` is true, or while the draft
\* trims to empty and no document is attached, calls onSend never and
\* changes no component state, with or without an attached image.
C1_RefusedSendIsNoOp == [][(TriggerStep /\ Refusing) => NotSent]_vars

\* a click was refused although an image is attached: the draft is blank and
\* there is no document
C1_Witness ==
  /\ lastOp.name = "onClick"
  /\ lastOp.calls = <<>>
  /\ ~disabled
  /\ base64Image # Null
  /\ question = <<" ">>
  /\ uploadedFile = Null

\* ----------------------------------------------------------------- C2
\* the outbound text as the claim spells it out
C2_ClaimedText ==
  IF uploadedFile = Null
    THEN question
    ELSE <<"F", "i", "l", "e", ":", " ">> \o Get(uploadedFile).filename
           \o <<"\n", "\n">> \o Get(uploadedFile).enhanced_content.original_text
           \o <<"\n", "\n">>
           \o <<"U", "s", "e", "r", " ", "Q", "u", "e", "s", "t", "i", "o", "n", ":", " ">>
           \o question

\* document {filename: "a.txt", fullText: "hello"} with draft "what is this?"
C2_Example ==
  questionContent(
      <<"w", "h", "a", "t", " ", "i", "s", " ", "t", "h", "i", "s", "?">>,
      Some(uploadedDocument(
        [filename |-> <<"a", ".", "t", "x", "t">>,
         enhanced_content |-> [summary |-> <<>>,
                               original_text |-> <<"h", "e", "l", "l", "o">>]])))
    = <<"F", "i", "l", "e", ":", " ", "a", ".", "t", "x", "t", "\n", "\n",
        "h", "e", "l", "l", "o", "\n", "\n",
        "U", "s", "e", "r", " ", "Q", "u", "e", "s", "t", "i", "o", "n", ":", " ",
        "w", "h", "a", "t", " ", "i", "s", " ", "t", "h", "i", "s", "?">>

\* C2: every permitted send hands onSend the raw, untrimmed draft when no
\* document is attached, and "File: " + filename + "\n\n" + full extracted
\* text + "\n\nUser Question: " + raw draft when one is.
C2_AssembledText ==
  [][/\ C2_Example
     /\ PermittedSend =>
          /\ Len(lastOp'.calls) = 1
          /\ PayloadText(lastOp'.calls[1].payload) = C2_ClaimedText]_vars

\* a draft with leading whitespace was sent together with a document
C2_Witness ==
  /\ lastOp.calls # <<>>
  /\ ~clearOnSend
  /\ uploadedFile # Null
  /\ question = <<" ", "a">>
  /\ PayloadText(lastOp.calls[1].payload) = C2_ClaimedText

\* ----------------------------------------------------------------- C3
\* C3 as stated: every permitted send calls onSend exactly once, with
\* (payload, conversationId) whenever a conversationId was supplied, whatever
\* its value, and with (payload) alone when none was supplied.
C3_AsStated ==
  [][PermittedSend =>
       /\ Len(lastOp'.calls) = 1
       /\ conversationId # Null =>
            lastOp'.calls[1].arity = 2 /\ lastOp'.calls[1].id = conversationId
       /\ conversationId = Null =>
            lastOp'.calls[1].arity = 1]_vars

\* C3 amended: every permitted send calls onSend exactly once, with
\* (payload, conversationId) when a non-empty conversationId was supplied, and
\* with (payload) alone when none was supplied or it is the empty string.
C3_Dispatch ==
  [][PermittedSend =>
       /\ Len(lastOp'.calls) = 1
       /\ (conversationId # Null /\ Get(conversationId) # "") =>
            lastOp'.calls[1].arity = 2 /\ lastOp'.calls[1].id = conversationId
       /\ (conversationId = Null \/ conversationId = Some("")) =>
            lastOp'.calls[1].arity = 1 /\ lastOp'.calls[1].id = Null]_vars

\* a send in an existing conversation made one call with two arguments
C3_Witness ==
  /\ conversationId = Some("c1")
  /\ Len(lastOp.calls) = 1
  /\ lastOp.calls[1].arity = 2
  /\ lastOp.calls[1].id = Some("c1")

\* ----------------------------------------------------------------- C4
\* C4 as stated: after a permitted send with clearOnSend the draft is empty
\* and no document is attached until the user types or selects a file, also
\* when a processDocumentWithAI call started before the send settles after it.
C4_AsStated ==
  sinceClear # "none" => question = <<>> /\ uploadedFile = Null

\* C4 amended: a permitted send with clearOnSend empties the draft and detaches
\* the document in the step that calls onSend; the draft stays empty until the
\* user types, and the document stays detached until the user selects a file
\* or a processDocumentWithAI call that was in flight at the send is fulfilled,
\* which attaches its document.
C4_ClearOnSend ==
  /\ (lastOp.calls # <<>> /\ clearOnSend) =>
        sinceClear = "clean"
  /\ sinceClear = "clean" => question = <<>> /\ uploadedFile = Null
  /\ sinceClear = "reattached" => question = <<>>

\* a clearing send was made while a call was in flight, and the call then
\* failed: the component is still cleared
C4_Witness ==
  /\ sinceClear = "clean"
  /\ lastOp.name = "docRejected"
  /\ question = <<>>
  /\ uploadedFile = Null

\* ----------------------------------------------------------------- C5
\* C5 as stated: a failed call sets uploadError to the failure's message, or
\* to "Document processing failed" when the failure carries no message, sets
\* isUploading to false and leaves uploadedFile alone.
C5_AsStated ==
  [][lastOp'.name = "docRejected" =>
       /\ uploadError' =
            Some(IF Get(lastOp'.reason).message # ""
                   THEN Get(lastOp'.reason).message
                   ELSE "Document processing failed")
       /\ isUploading' = FALSE
       /\ uploadedFile' = uploadedFile]_vars

\* C5 amended: a failed call sets uploadError to the failure's message when
\* the failure is an Error (also when that message is empty), and to
\* "Document processing failed" when it is any other value; it sets
\* isUploading to false and leaves uploadedFile alone.
C5_FailedUpload ==
  [][lastOp'.name = "docRejected" =>
       /\ uploadError' =
            Some(IF Get(lastOp'.reason).isError
                   THEN Get(lastOp'.reason).message
                   ELSE "Document processing failed")
       /\ isUploading' = FALSE
       /\ uploadedFile' = uploadedFile]_vars

\* a call failed while a document from an earlier upload was attached
C5_Witness ==
  /\ lastOp.name = "docRejected"
  /\ uploadedFile # Null
  /\ uploadError = Some("boom")
  /\ ~isUploading

\* ----------------------------------------------------------------- C6
\* C6: every permitted send hands onSend the assembled text alone when no
\* image is attached, and the pair <<text part with the assembled text, image
\* part with the encoded image>> when one is.
C6_PayloadShape ==
  [][PermittedSend =>
       /\ Len(lastOp'.calls) = 1
       /\ lastOp'.calls[1].payload =
            IF base64Image = Null
              THEN StringPayload(questionContent(question, uploadedFile))
              ELSE ArrayPayload(<<TextPart(questionContent(question, uploadedFile)),
                                  ImagePart(Get(base64Image))>>)]_vars

\* a send with an image attached
C6_Witness ==
  /\ lastOp.calls # <<>>
  /\ ~clearOnSend
  /\ base64Image # Null
  /\ lastOp.calls[1].payload.kind = "array"
  /\ Len(lastOp.calls[1].payload.array) = 2

\* ----------------------------------------------------------------- C7
\* what sendQuestion does in the current state
SendCalls ==
  IF sendQuestionDisabled(disabled, question, uploadedFile)
    THEN <<>>
    ELSE dispatch(questionTest(questionContent(question, uploadedFile), base64Image),
                  conversationId)

SendState ==
  IF sendQuestionDisabled(disabled, question, uploadedFile)
    THEN <<question, uploadedFile, base64Image>>
    ELSE LET after == afterSend(clearOnSend, question, uploadedFile, base64Image)
         IN <<after.question, after.uploadedFile, after.base64Image>>

SameAsSend ==
  /\ lastOp'.calls = SendCalls
  /\ <<question', uploadedFile', base64Image'>> = SendState
  /\ ~Refusing => Len(lastOp'.calls) = 1

TextFieldKeys ==
  /\ (lastOp'.name = "onEnterPress" /\ lastOp'.ev = Key("Enter", FALSE, FALSE)) =>
        SameAsSend
  /\ (lastOp'.name = "onEnterPress" /\ lastOp'.ev.key = "Enter" /\ lastOp'.ev.shiftKey) =>
        NotSent

\* C7 as stated: Enter without Shift and outside composition in the text field
\* sends as a click does and Shift+Enter there does not send; on the send
\* button a click, Space or Enter without Shift sends and Shift+Enter does
\* not call onSend.
C7_AsStated ==
  [][/\ TextFieldKeys
     /\ lastOp'.name = "onClick" => SameAsSend
     /\ (lastOp'.name = "onKeyDown" /\
           (lastOp'.ev.key = " " \/ (lastOp'.ev.key = "Enter" /\ ~lastOp'.ev.shiftKey))) =>
          SameAsSend
     /\ (lastOp'.name = "onKeyDown" /\ lastOp'.ev.key = "Enter" /\ lastOp'.ev.shiftKey) =>
          lastOp'.calls = <<>>]_vars

\* C7 amended: Enter without Shift and outside composition in the text field
\* sends as a click does and Shift+Enter there does not send; on the send
\* button a click, Space or Enter sends, Enter also with Shift held.
C7_SendKeys ==
  [][/\ TextFieldKeys
     /\ lastOp'.name = "onClick" => SameAsSend
     /\ (lastOp'.name = "onKeyDown" /\ lastOp'.ev.key \in {" ", "Enter"}) =>
          SameAsSend]_vars

\* Shift+Enter on the send button sent the question
C7_Witness ==
  /\ lastOp.name = "onKeyDown"
  /\ lastOp.ev = Key("Enter", TRUE, FALSE)
  /\ Len(lastOp.calls) = 1

\* ----------------------------------------------------------------- C8
\* C8: isUploading is true only while a processDocumentWithAI call is in
\* flight, also when calls overlap: isUploading implies a call in flight, and
\* with no call in flight isUploading is false.
C8_UploadingOnlyInFlight ==
  /\ isUploading => Len(pending) >= 1
  /\ pending = <<>> => isUploading = FALSE

\* a second call was started while the first was in flight
C8_Witness ==
  /\ lastOp.name = "handleFileUpload"
  /\ lastOp.ahead >= 1
  /\ isUploading
  /\ Len(pending) >= 2

\* ----------------------------------------------------------------- C9
\* the handlers the claim lists as leaving uploadError alone
C9_Others ==
  SendTriggers \cup {"onQuestionChange", "handleImageUpload", "imageResized",
                     "imageFailed", "docFulfilled"}

\* C9: handleFileUpload with a file clears uploadError, and nothing else does:
\* a send, a text edit, an image upload or its completion and a fulfilled
\* document call leave it as it is, and handleFileUpload without a file
\* changes nothing.
C9_ErrorClearedOnlyAtStart ==
  [][/\ (lastOp'.name = "handleFileUpload" /\ lastOp'.file # Null) =>
          uploadError' = Null
     /\ (lastOp'.name = "handleFileUpload" /\ lastOp'.file = Null) => NotSent
     /\ lastOp'.name \in C9_Others => uploadError' = uploadError
     /\ (uploadError # Null /\ uploadError' = Null) =>
          (lastOp'.name = "handleFileUpload" /\ lastOp'.file # Null)]_vars

\* a document call was fulfilled and the error of another call is still shown
C9_Witness ==
  /\ lastOp.name = "docFulfilled"
  /\ uploadError = Some("boom")
  /\ uploadedFile # Null

\* ---------------------------------------------------------------- C10
\* the whole result of processing file f, as it is stored
C10_Result(f) ==
  [filename |-> FileName(f),
   enhanced_content |-> [summary |-> FileSummary(f), original_text |-> FileText(f)],
   display_summary |-> FileSummary(f),
   full_content |-> FileText(f)]

\* C10: handleFileUpload with a file starts a call whether or not another is
\* in flight; at most one document is attached; a fulfilled call attaches
\* exactly its own result, whatever was attached and whatever the request
\* order, and no other step attaches or alters a document.
C10_LastCompletionWins ==
  [][/\ (lastOp'.name = "handleFileUpload" /\ lastOp'.file # Null) =>
          /\ pending' = Append(pending, Get(lastOp'.file))
          /\ lastOp'.ahead = Len(pending)
     /\ Len(uploadedFile') <= 1
     /\ lastOp'.name = "docFulfilled" =>
          uploadedFile' = Some(C10_Result(Get(lastOp'.file)))
     /\ lastOp'.name # "docFulfilled" =>
          uploadedFile' \in {uploadedFile, Null}]_vars

\* the call requested second was fulfilled while the first was in flight and
\* its document is attached
C10_Witness ==
  /\ lastOp.name = "docFulfilled"
  /\ lastOp.ahead >= 1
  /\ pending # <<>>
  /\ uploadedFile = Some(C10_Result(Get(lastOp.file)))
====
